---- MODULE Spec2Model ----
(***************************************************************************)
(* treegen: a model of src/main.rs.                                        *)
(*                                                                         *)
(* Strings are sequences of one-character strings, so that trimming,       *)
(* lower-casing, splitting at '/' and at '.' are computed, not assumed.    *)
(* A path (std::path::PathBuf) is the string it was built from; Eq and Ord *)
(* of PathBuf (and so BTreeSet<PathBuf>) compare its components, while the *)
(* filesystem calls are handed the string.                                 *)
(***************************************************************************)
EXTENDS Integers, Sequences, FiniteSets, TLC

VARIABLES
    pc,           \* position in main / in the function under test
    args,         \* the parsed command line (struct Args)
    groups,       \* the groups handed to collect_groups
    gi,           \* collect_groups: index of the group being walked
    ti,           \* collect_groups: index of the next token, 0 = group not begun
    current_dir,  \* collect_groups: the cursor
    all_paths,    \* the Path Set (BTreeSet<PathBuf>)
    hist,         \* ghost: what collect_groups did, token by token
    answer,       \* the line read from the prompt (ghost: kept after the read)
    fs,           \* the filesystem below the working directory
    denied,       \* locations the environment refuses to create
    ci,           \* main: index of the next path to create
    attempts,     \* ghost: the create_path calls made, in order, with outcome
    pass,         \* how many materialization passes have been completed
    exit_code     \* the process exit status, -1 while running

vars == <<pc, args, groups, gi, ti, current_dir, all_paths, hist, answer,
          fs, denied, ci, attempts, pass, exit_code>>

\* Bounds of the model
MaxArgs == 2          \* main: positional tokens on the command line
MaxTokens == 4        \* parse_groups / collect_groups: tokens per input
MaxCreateTokens == 2  \* materialization: tokens per input
Passes == 2           \* materialization: how often the same Path Set is created

(***************************************************************************)
(* Characters and strings                                                  *)
(***************************************************************************)

\* The characters the model's inputs use, in increasing byte order.
Ascii ==
    << "\t", "\n", "\r", " ", ".", "/", "1", "2", ":",
       "A", "B", "C", "D", "E", "F", "G", "H", "I", "J", "K", "L", "M",
       "N", "O", "P", "Q", "R", "S", "T", "U", "V", "W", "X", "Y", "Z", "_",
       "a", "b", "c", "d", "e", "f", "g", "h", "i", "j", "k", "l", "m",
       "n", "o", "p", "q", "r", "s", "t", "u", "v", "w", "x", "y", "z" >>

CodeTable ==
    [c \in {Ascii[i] : i \in 1..Len(Ascii)} |->
        CHOOSE i \in 1..Len(Ascii) : Ascii[i] = c]

CharCode(c) == CodeTable[c]

\* char::is_whitespace, on the characters above
IsSpace(c) == c \in {"\t", "\n", "\r", " "}

\* char::to_lowercase, on the characters above: the runs "A".."Z" and
\* "a".."z" are both contiguous, so one offset maps the first onto the second
LowerChar(c) ==
    LET i == CharCode(c)
    IN  IF CharCode("A") <= i /\ i <= CharCode("Z")
        THEN Ascii[i + (CharCode("a") - CharCode("A"))] ELSE c

to_lowercase(s) == [i \in 1..Len(s) |-> LowerChar(s[i])]

\* str::trim: drop leading and trailing whitespace
RECURSIVE TrimStart(_)
TrimStart(s) ==
    IF s # <<>> /\ IsSpace(Head(s)) THEN TrimStart(Tail(s)) ELSE s

RECURSIVE TrimEnd(_)
TrimEnd(s) ==
    IF s # <<>> /\ IsSpace(s[Len(s)]) THEN TrimEnd(SubSeq(s, 1, Len(s) - 1)) ELSE s

trim(s) == TrimEnd(TrimStart(s))

\* The pieces of s between occurrences of sep (str::split): always at least one.
RECURSIVE SplitFrom(_, _, _, _)
SplitFrom(s, sep, i, acc) ==
    IF i > Len(s) THEN <<acc>>
    ELSE IF s[i] = sep THEN <<acc>> \o SplitFrom(s, sep, i + 1, <<>>)
    ELSE SplitFrom(s, sep, i + 1, Append(acc, s[i]))

Split(s, sep) == SplitFrom(s, sep, 1, <<>>)

\* str::lines: the pieces that end at a "\n" lose it and then one "\r" before
\* it; the piece after the last "\n" is a line when it is not empty, and
\* keeps a "\r" at its end
StripCr(l) ==
    IF l # <<>> /\ l[Len(l)] = "\r" THEN SubSeq(l, 1, Len(l) - 1) ELSE l

lines(content) ==
    LET raw  == Split(content, "\n")
        n    == Len(raw)
        kept == IF raw[n] = <<>> THEN SubSeq(raw, 1, n - 1) ELSE raw
    IN  [i \in 1..Len(kept) |-> IF i < n THEN StripCr(kept[i]) ELSE kept[i]]

\* Byte-wise lexicographic order of two strings (Ord for OsStr)
RECURSIVE StrLess(_, _)
StrLess(a, b) ==
    IF b = <<>> THEN FALSE
    ELSE IF a = <<>> THEN TRUE
    ELSE IF Head(a) # Head(b) THEN CharCode(Head(a)) < CharCode(Head(b))
    ELSE StrLess(Tail(a), Tail(b))

(***************************************************************************)
(* std::path, as main.rs uses it                                           *)
(***************************************************************************)

RootDir   == <<"/">>         \* Component::RootDir
CurDir    == <<".">>         \* Component::CurDir
ParentDir == <<".", ".">>    \* Component::ParentDir

IsNormal(c) == c \notin {RootDir, CurDir, ParentDir}

\* The non-empty pieces of s between its '/', in order: a piece starts after a
\* '/' (or at the front) and ends before the next one (or at the end); the
\* k-th start goes with the k-th end
RECURSIVE Pieces(_, _, _)
Pieces(s, starts, ends) ==
    IF starts = {} THEN <<>>
    ELSE LET a == CHOOSE x \in starts : \A y \in starts : x <= y
             e == CHOOSE x \in ends : \A y \in ends : x <= y
         IN  <<SubSeq(s, a, e)>> \o Pieces(s, starts \ {a}, ends \ {e})

Segments(s) ==
    LET n == Len(s)
    IN  Pieces(s, {a \in 1..n : s[a] # "/" /\ (a = 1 \/ s[a - 1] = "/")},
                  {e \in 1..n : s[e] # "/" /\ (e = n \/ s[e + 1] = "/")})

\* Path::components of the string s: "." is kept only in front of a relative
\* path, empty segments (repeated or trailing '/') are dropped.
Components(s) ==
    LET lead == IF s # <<>> /\ s[1] = "/" THEN <<RootDir>>
                ELSE IF s # <<>> /\ s[1] = "." /\ (Len(s) = 1 \/ s[2] = "/")
                     THEN <<CurDir>>
                ELSE <<>>
    IN  lead \o SelectSeq(Segments(s), LAMBDA x : x # CurDir)

\* PartialEq for Path: the components are compared, not the strings
SamePath(p, q) == Components(p) = Components(q)

\* Path::join(token) (PathBuf::push): an absolute token replaces the path;
\* otherwise it is appended, after a '/' unless the path is empty or ends
\* in one
Join(p, token) ==
    IF token # <<>> /\ token[1] = "/" THEN token
    ELSE IF p = <<>> \/ p[Len(p)] = "/" THEN p \o token
    ELSE p \o <<"/">> \o token

\* Components::len_before_body: the root, or the "." in front
LenBeforeBody(s) ==
    IF s # <<>> /\ s[1] = "/" THEN 1
    ELSE IF s # <<>> /\ s[1] = "." /\ (Len(s) = 1 \/ s[2] = "/") THEN 1
    ELSE 0

\* Components::parse_next_component_back: the text after the last '/' of the
\* body, and the string without it and that '/'
BackStep(s, lb) ==
    LET seps == {j \in (lb + 1)..Len(s) : s[j] = "/"}
        from == IF seps = {} THEN lb
                ELSE CHOOSE j \in seps : \A k \in seps : k <= j
        comp == SubSeq(s, from + 1, Len(s))
        size == Len(comp) + (IF seps = {} THEN 0 ELSE 1)
    IN  [rest |-> SubSeq(s, 1, Len(s) - size), comp |-> comp]

\* Components::trim_right: empty and "." pieces at the end are no components
RECURSIVE TrimRight(_, _)
TrimRight(s, lb) ==
    IF Len(s) <= lb THEN s
    ELSE LET b == BackStep(s, lb)
         IN  IF b.comp \notin {<<>>, CurDir} THEN s ELSE TrimRight(b.rest, lb)

\* Components::next_back: the kind of the last component and what is left
RECURSIVE NextBack(_, _)
NextBack(s, lb) ==
    IF Len(s) <= lb
    THEN IF s = <<>> THEN [kind |-> "none", rest |-> <<>>]
         ELSE IF s[1] = "/" THEN [kind |-> "root", rest |-> <<>>]
         ELSE [kind |-> "cur", rest |-> <<>>]
    ELSE LET b == BackStep(s, lb)
         IN  IF b.comp \in {<<>>, CurDir} THEN NextBack(b.rest, lb)
             ELSE [kind |-> "name", rest |-> b.rest]

\* Path::parent: None for "" and for a path that ends in the root; otherwise
\* the string in front of the last component
HasParent(p) == NextBack(p, LenBeforeBody(p)).kind \in {"name", "cur"}

Parent(p) ==
    LET n == NextBack(p, LenBeforeBody(p))
    IN  IF n.kind = "name" THEN TrimRight(n.rest, LenBeforeBody(p)) ELSE <<>>

\* Path::file_name: the last component when it is a normal one
HasFileName(p) ==
    LET c == Components(p) IN c # <<>> /\ IsNormal(c[Len(c)])

FileName(p) ==
    LET c == Components(p)
    IN  IF c # <<>> /\ IsNormal(c[Len(c)]) THEN c[Len(c)] ELSE <<>>

\* Position of the last '.' of a name, 0 when it has none
LastDot(n) ==
    LET dots == {i \in 1..Len(n) : n[i] = "."}
    IN  IF dots = {} THEN 0 ELSE CHOOSE i \in dots : \A j \in dots : j <= i

\* Path::extension().is_some(): the file name has a '.' that is not its first
\* character (".gitignore" has no extension, "name." has the empty one)
HasExtension(p) == LastDot(FileName(p)) >= 2

\* Ord for Component, then Ord for Path: lexicographic over the components
CompRank(c) ==
    IF c = RootDir THEN 1 ELSE IF c = CurDir THEN 2 ELSE IF c = ParentDir THEN 3 ELSE 4

CompLess(a, b) ==
    IF CompRank(a) # CompRank(b) THEN CompRank(a) < CompRank(b)
    ELSE CompRank(a) = 4 /\ StrLess(a, b)

RECURSIVE CompsLess(_, _)
CompsLess(p, q) ==
    IF q = <<>> THEN FALSE
    ELSE IF p = <<>> THEN TRUE
    ELSE IF Head(p) # Head(q) THEN CompLess(Head(p), Head(q))
    ELSE CompsLess(Tail(p), Tail(q))

PathLess(p, q) == CompsLess(Components(p), Components(q))

\* BTreeSet::insert: a path equal to one of the set is not added
Insert(set, p) ==
    LET c == Components(p)
    IN  IF \E q \in set : q = p \/ Components(q) = c THEN set ELSE set \cup {p}

\* Iteration order of the BTreeSet
RECURSIVE SortedPaths(_)
SortedPaths(S) ==
    IF S = {} THEN <<>>
    ELSE LET m == CHOOSE p \in S : \A q \in S : q = p \/ PathLess(p, q)
         IN  <<m>> \o SortedPaths(S \ {m})

(***************************************************************************)
(* Pure functions of main.rs                                               *)
(***************************************************************************)

SEP    == <<":">>          \* the group separator token
ASCEND == <<".", ".">>     \* the ascend token

\* parse_groups without the is_empty test of line 169
RECURSIVE ParseLoopPushesEmpty(_, _, _, _)
ParseLoopPushesEmpty(tokens, i, acc, current) ==
    IF i > Len(tokens)
    THEN IF current # <<>> THEN Append(acc, current) ELSE acc
    ELSE IF tokens[i] = SEP
         THEN ParseLoopPushesEmpty(tokens, i + 1, Append(acc, current), <<>>)
         ELSE ParseLoopPushesEmpty(tokens, i + 1, acc, Append(current, tokens[i]))

\* parse_groups: the loop over the tokens, with its two accumulators
RECURSIVE ParseLoop(_, _, _, _)
ParseLoop(tokens, i, acc, current) ==
    IF i > Len(tokens)
    THEN IF current # <<>> THEN Append(acc, current) ELSE acc
    ELSE IF tokens[i] = SEP
         THEN IF current # <<>>
              THEN ParseLoop(tokens, i + 1, Append(acc, current), <<>>)
              ELSE ParseLoop(tokens, i + 1, acc, current)
         ELSE ParseLoop(tokens, i + 1, acc, Append(current, tokens[i]))

parse_groups(tokens) == ParseLoop(tokens, 1, <<>>, <<>>)

\* get_default
PyDefault ==
    << <<"s","r","c","/","_","_","i","n","i","t","_","_",".","p","y">>,
       <<"s","r","c","/","m","a","i","n",".","p","y">>,
       <<".","g","i","t","i","g","n","o","r","e">>,
       <<"r","e","q","u","i","r","e","m","e","n","t","s",".","t","x","t">>,
       <<"R","E","A","D","M","E",".","m","d">> >>

RsDefault ==
    << <<"s","r","c","/","m","a","i","n",".","r","s">>,
       <<"C","a","r","g","o",".","t","o","m","l">>,
       <<".","g","i","t","i","g","n","o","r","e">>,
       <<"R","E","A","D","M","E",".","m","d">> >>

WebDefault ==
    << <<"s","r","c","/","i","n","d","e","x",".","j","s">>,
       <<"s","r","c","/","s","t","y","l","e",".","c","s","s">>,
       <<"p","u","b","l","i","c","/","i","n","d","e","x",".","h","t","m","l">>,
       <<".","g","i","t","i","g","n","o","r","e">>,
       <<"p","a","c","k","a","g","e",".","j","s","o","n">>,
       <<"R","E","A","D","M","E",".","m","d">> >>

get_default(lang) ==
    IF lang \in {<<"p","y">>, <<"p","y","t","h","o","n">>} THEN PyDefault
    ELSE IF lang \in {<<"r","s">>, <<"r","u","s","t">>} THEN RsDefault
    ELSE IF lang \in {<<"w","e","b">>, <<"j","s">>, <<"t","s">>} THEN WebDefault
    ELSE <<>>

\* collect_groups, line 203: the cursor descends into a resolved path that has
\* no extension and whose file name does not start with '.'
StartsWithDot(n) == n # <<>> /\ n[1] = "."

\* line 203 without the dotfile test
is_dir_like_by_extension(path) == ~HasExtension(path)

is_dir_like(path) ==
    LET name == FileName(path) IN LastDot(name) < 2 /\ ~StartsWithDot(name)

\* create_path, lines 257-263: the leaf is created as a file when it has an
\* extension or its file name contains a '.'
file_like(path) == LastDot(FileName(path)) > 0

\* line 263 without the dotfile test
creates_file_by_extension(path) == HasExtension(path)

creates_file(path) == HasExtension(path) \/ file_like(path)

\* collect_groups, one pass of the inner loop body (lines 189-207): the cursor
\* and the Path Set after the token
CollectToken(base, cur, set, token) ==
    IF token = ASCEND
    THEN [cur |-> IF HasParent(cur) THEN Parent(cur) ELSE base, set |-> set]
    ELSE LET path == Join(cur, token)
             one  == Insert(set, path)
             with == IF HasParent(path) THEN Insert(one, Parent(path)) ELSE one
         IN  [cur |-> IF is_dir_like(path) THEN path ELSE cur, set |-> with]

\* collect_groups as a function: the Path Set after all groups
RECURSIVE CollectGroup(_, _, _, _, _)
CollectGroup(base, group, i, cur, set) ==
    IF i > Len(group) THEN set
    ELSE LET r == CollectToken(base, cur, set, group[i])
         IN  CollectGroup(base, group, i + 1, r.cur, r.set)

RECURSIVE CollectAll(_, _, _, _)
CollectAll(base, gs, g, set) ==
    IF g > Len(gs) THEN set
    ELSE CollectAll(base, gs, g + 1, CollectGroup(base, gs[g], 1, base, set))

(***************************************************************************)
(* The input files: templates and structure files                          *)
(***************************************************************************)

\* dirs::home_dir()
Home == <<"/", "h">>

\* get_template_path: <home>/.config/treegen/templates/<name>.txt
get_template_path(name) ==
    Join(Join(Home, <<".","c","o","n","f","i","g","/","t","r","e","e","g","e","n",
                      "/","t","e","m","p","l","a","t","e","s">>),
         name \o <<".","t","x","t">>)

\* The files the runs can name. A file that is there but cannot be read
\* (a directory, no permission) has readable = FALSE.
TemplateGood == <<"g">>     \* template g: "tp\n x.t \n\n"
TemplateBlank == <<"e">>    \* template e: " \n\n"
TemplateNone == <<"m">>     \* no such template
FromGood == <<"f",".","t","x","t">>    \* "fr\r\n\ny.t"
FromBlank == <<"e",".","t","x","t">>   \* "\n \t\n"
FromLocked == <<"u",".","t","x","t">>  \* exists, cannot be read
FromNone == <<"m",".","t","x","t">>    \* no such file

(***************************************************************************)
(* The filesystem that create_path writes                                  *)
(***************************************************************************)

\* A location is the list of names from the root (<<>>) down to a place,
\* with "." and ".." resolved. fs.dirs and fs.files are the locations that
\* were created; fs.data are the files with content.
NoFs == [dirs |-> {}, files |-> {}, data |-> {}]

\* std::env::current_dir: the directory relative paths start from
Cwd == << <<"w">>, <<"c">> >>

\* The working directory and the directories above it, up to the root
Standing(loc) == Len(loc) <= Len(Cwd) /\ loc = SubSeq(Cwd, 1, Len(loc))

IsDir(f, loc) == loc \in f.dirs \/ Standing(loc)
IsFile(f, loc) == loc \in f.files
Present(f, loc) == IsDir(f, loc) \/ IsFile(f, loc)

\* "..": one name up, and the root is its own parent
Up(loc) == IF loc = <<>> THEN <<>> ELSE SubSeq(loc, 1, Len(loc) - 1)

\* The names the kernel walks: the pieces between the '/' of the string,
\* "." and ".." among them
KernelSegs(s) == Segments(s)

\* The string ends in '/': stat(2) and open(2) then refuse a file (ENOTDIR),
\* open(2) with O_CREAT refuses altogether, mkdir(2) does not mind
TrailingSlash(s) == s # <<>> /\ s[Len(s)] = "/"

\* Path resolution by the kernel, from segment i on: every segment is looked
\* up in a directory that must be there. err is "" or the errno.
RECURSIVE Walk(_, _, _, _)
Walk(f, segs, i, loc) ==
    IF i > Len(segs) THEN [err |-> "", loc |-> loc]
    ELSE IF ~IsDir(f, loc)
         THEN [err |-> IF IsFile(f, loc) THEN "ENOTDIR" ELSE "ENOENT", loc |-> loc]
    ELSE IF segs[i] = CurDir THEN Walk(f, segs, i + 1, loc)
    ELSE IF segs[i] = ParentDir THEN Walk(f, segs, i + 1, Up(loc))
    ELSE Walk(f, segs, i + 1, Append(loc, segs[i]))

\* The location the path string names, from the root when it starts with '/'
\* and from the working directory otherwise; "" names nothing. What a '/' at
\* the end asks for is left to the call.
Resolve(f, s) ==
    IF s = <<>> THEN [err |-> "ENOENT", loc |-> <<>>]
    ELSE Walk(f, KernelSegs(s), 1, IF s[1] = "/" THEN <<>> ELSE Cwd)

\* Path::is_dir, of the resolved path w
IsDirAt(f, w) == w.err = "" /\ IsDir(f, w.loc)

is_dir(f, p) == IsDirAt(f, Resolve(f, p))

\* mkdir(2), of the resolved path w: what is there already, a file followed
\* by '/' too, is EEXIST
MkdirAt(f, w) ==
    IF w.err # "" THEN [err |-> w.err, fs |-> f]
    ELSE IF Present(f, w.loc) THEN [err |-> "EEXIST", fs |-> f]
    ELSE IF w.loc \in denied THEN [err |-> "EACCES", fs |-> f]
    ELSE [err |-> "", fs |-> [f EXCEPT !.dirs = @ \cup {w.loc}]]

Mkdir(f, p) == MkdirAt(f, Resolve(f, p))

\* fs::create_dir_all, the arms after a mkdir with result r: Ok(()) is Ok,
\* an Err is Ok when the path is a directory all the same
MkdirOrIsDir(f, p, r) == [ok |-> r.err = "" \/ is_dir(f, p), fs |-> r.fs]

\* fs::create_dir_all, after the parent was made with result up: its Err is
\* returned, otherwise mkdir is tried once more
MkdirAgain(p, up) ==
    IF ~up.ok THEN up ELSE MkdirOrIsDir(up.fs, p, Mkdir(up.fs, p))

\* fs::create_dir_all: "" is Ok; mkdir with result r, and on ENOENT (NotFound)
\* the parent first
RECURSIVE create_dir_all(_, _)
MkdirFirst(f, p, r) ==
    IF r.err # "ENOENT" THEN MkdirOrIsDir(f, p, r)
    ELSE IF ~HasParent(p) THEN [ok |-> FALSE, fs |-> f]
    ELSE MkdirAgain(p, create_dir_all(f, Parent(p)))

create_dir_all(f, p) ==
    IF p = <<>> THEN [ok |-> TRUE, fs |-> f] ELSE MkdirFirst(f, p, Mkdir(f, p))

\* fs::File::create: open(O_WRONLY | O_CREAT | O_TRUNC), of the resolved
\* path w; slash says that the string ends in '/'
FileCreateAt(f, w, slash) ==
    IF w.err # "" \/ IsDir(f, w.loc) \/ slash THEN [ok |-> FALSE, fs |-> f]
    ELSE IF ~IsFile(f, w.loc) /\ w.loc \in denied THEN [ok |-> FALSE, fs |-> f]
    ELSE [ok |-> TRUE,
          fs |-> [f EXCEPT !.files = @ \cup {w.loc}, !.data = @ \ {w.loc}]]

FileCreate(f, p) == FileCreateAt(f, Resolve(f, p), TrailingSlash(p))

\* create_path, lines 257-271 after the parents were made with result up: the
\* leaf as a file or as a directory; kind is the branch taken (or not reached)
Kinded(r, kind) == [ok |-> r.ok, fs |-> r.fs, kind |-> kind]

CreateLeaf(path, up) ==
    IF creates_file(path)
    THEN Kinded(IF up.ok THEN FileCreate(up.fs, path) ELSE up, "file")
    ELSE Kinded(IF up.ok THEN create_dir_all(up.fs, path) ELSE up, "dir")

\* create_path: the parents, then the leaf
create_path(f, path) ==
    CreateLeaf(path, IF HasParent(path) THEN create_dir_all(f, Parent(path))
                     ELSE [ok |-> TRUE, fs |-> f])

(***************************************************************************)
(* The tree of the input files, read through the same path resolution      *)
(***************************************************************************)

\* The directory of the templates, as a location
TemplateDir ==
    << <<"h">>, <<".","c","o","n","f","i","g">>,
      <<"t","r","e","e","g","e","n">>, <<"t","e","m","p","l","a","t","e","s">>>>

\* What read_to_string gives for the files that are there, by location
InputFiles ==
    { [loc |-> Append(TemplateDir, TemplateGood \o <<".","t","x","t">>),
       readable |-> TRUE,
       content |-> <<"t","p","\n"," ","x",".","t"," ","\n","\n">>],
      [loc |-> Append(TemplateDir, TemplateBlank \o <<".","t","x","t">>),
       readable |-> TRUE, content |-> <<" ","\n","\n">>],
      [loc |-> Append(Cwd, FromGood), readable |-> TRUE,
       content |-> <<"f","r","\r","\n","\n","y",".","t">>],
      [loc |-> Append(Cwd, FromBlank), readable |-> TRUE,
       content |-> <<"\n"," ","\t","\n">>],
      [loc |-> Append(Cwd, FromLocked), readable |-> FALSE, content |-> <<>>] }

\* The tree the input files are in
InputTree ==
    [dirs  |-> {SubSeq(TemplateDir, 1, n) : n \in 1..Len(TemplateDir)},
     files |-> {f.loc : f \in InputFiles},
     data  |-> {f.loc : f \in InputFiles}]

\* Path::exists (stat(2)), of the resolved path w: a file followed by '/' is
\* not there
ExistsAt(w, slash) ==
    w.err = "" /\ (IsDir(InputTree, w.loc) \/ (IsFile(InputTree, w.loc) /\ ~slash))

Exists(path) == ExistsAt(Resolve(InputTree, path), TrailingSlash(path))

\* fs::read_to_string, of the resolved path w: found is FALSE when the path
\* names no readable file
ReadAt(w, slash) ==
    LET hits == {f \in InputFiles : f.loc = w.loc /\ f.readable}
    IN  IF w.err # "" \/ slash \/ hits = {}
        THEN [found |-> FALSE, content |-> <<>>]
        ELSE [found |-> TRUE, content |-> (CHOOSE f \in hits : TRUE).content]

ReadToString(path) == ReadAt(Resolve(InputTree, path), TrailingSlash(path))

\* parse_structure_file: "err" is the Err of read_to_string, "exit" is
\* process::exit(1) on a file without a non-blank line
parse_structure_file(path) ==
    LET r == ReadToString(path)
    IN  IF ~r.found THEN [result |-> "err", lines |-> <<>>]
        ELSE LET ls      == lines(r.content)
                 trimmed == [i \in 1..Len(ls) |-> trim(ls[i])]
                 kept    == SelectSeq(trimmed, LAMBDA l : l # <<>>)
             IN  IF kept = <<>> THEN [result |-> "exit", lines |-> <<>>]
                 ELSE [result |-> "ok", lines |-> kept]

(***************************************************************************)
(* main                                                                    *)
(***************************************************************************)

\* args.output as a path
Base == args.output

Exit(code) == pc' = "exit" /\ exit_code' = code

\* lines 41-44: no input at all is a usage error
CheckInput ==
    /\ pc = "start"
    /\ IF args.paths = <<>> /\ args.from = <<>> /\ args.template = <<>>
          /\ args.default = <<>>
       THEN Exit(1)
       ELSE pc' = "select" /\ UNCHANGED exit_code
    /\ UNCHANGED <<args, groups, gi, ti, current_dir, all_paths, hist, answer,
                   fs, denied, ci, attempts, pass>>

\* the chain with its first two branches exchanged
SourceFromFirst ==
    IF args.from # <<>> THEN "from"
    ELSE IF args.template # <<>> THEN "template"
    ELSE IF args.default # <<>> THEN "default"
    ELSE "args"

\* lines 48, 58, 62, 69: the if / else-if chain that picks the source
Source ==
    IF args.template # <<>> THEN "template"
    ELSE IF args.from # <<>> THEN "from"
    ELSE IF args.default # <<>> THEN "default"
    ELSE "args"

\* What each branch does with its groups: hand them to collect_groups
StartCollect(gs) ==
    /\ groups' = gs
    /\ gi' = 1
    /\ ti' = 0
    /\ pc' = "collect"
    /\ UNCHANGED exit_code

Fatal == Exit(1) /\ UNCHANGED <<groups, gi, ti>>

\* lines 48-57
UseTemplate ==
    /\ pc = "select"
    /\ Source = "template"
    /\ LET template_path == get_template_path(args.template[1])
           r == parse_structure_file(template_path)
       IN  IF ~Exists(template_path) THEN Fatal
           ELSE IF r.result # "ok" THEN Fatal
           ELSE StartCollect(<<r.lines>>)
    /\ UNCHANGED <<args, current_dir, all_paths, hist, answer, fs, denied, ci,
                   attempts, pass>>

\* lines 58-61
UseFrom ==
    /\ pc = "select"
    /\ Source = "from"
    /\ LET r == parse_structure_file(args.from[1])
       IN  IF r.result # "ok" THEN Fatal ELSE StartCollect(<<r.lines>>)
    /\ UNCHANGED <<args, current_dir, all_paths, hist, answer, fs, denied, ci,
                   attempts, pass>>

\* lines 62-68
UseDefault ==
    /\ pc = "select"
    /\ Source = "default"
    /\ LET structure == get_default(args.default[1])
       IN  IF structure = <<>> THEN Fatal ELSE StartCollect(<<structure>>)
    /\ UNCHANGED <<args, current_dir, all_paths, hist, answer, fs, denied, ci,
                   attempts, pass>>

\* lines 69-72
UseArgs ==
    /\ pc = "select"
    /\ Source = "args"
    /\ StartCollect(parse_groups(args.paths))
    /\ UNCHANGED <<args, current_dir, all_paths, hist, answer, fs, denied, ci,
                   attempts, pass>>

\* collect_groups, line 186: a group begins with the cursor at the base
BeginGroup ==
    /\ pc = "collect"
    /\ gi <= Len(groups)
    /\ ti = 0
    /\ current_dir' = Base
    /\ ti' = 1
    /\ UNCHANGED <<pc, args, groups, gi, all_paths, hist, answer, fs, denied, ci,
                   attempts, pass, exit_code>>

\* collect_groups, lines 188-208: one token of the group
WalkToken ==
    /\ pc = "collect"
    /\ gi <= Len(groups)
    /\ ti >= 1
    /\ ti <= Len(groups[gi])
    /\ LET token == groups[gi][ti]
           r     == CollectToken(Base, current_dir, all_paths, token)
       IN  /\ current_dir' = r.cur
           /\ all_paths' = r.set
           /\ hist' = Append(hist, [group  |-> gi,
                                    token  |-> token,
                                    before |-> current_dir,
                                    path   |-> IF token = ASCEND THEN <<>>
                                               ELSE Join(current_dir, token),
                                    after  |-> r.cur])
    /\ ti' = ti + 1
    /\ UNCHANGED <<pc, args, groups, gi, answer, fs, denied, ci, attempts, pass,
                   exit_code>>

\* collect_groups, line 185: on to the next group
EndGroup ==
    /\ pc = "collect"
    /\ gi <= Len(groups)
    /\ ti > Len(groups[gi])
    /\ gi' = gi + 1
    /\ ti' = 0
    /\ UNCHANGED <<pc, args, groups, current_dir, all_paths, hist, answer, fs,
                   denied, ci, attempts, pass, exit_code>>

\* collect_groups, line 210
CollectDone ==
    /\ pc = "collect"
    /\ gi > Len(groups)
    /\ pc' = "check"
    /\ UNCHANGED <<args, groups, gi, ti, current_dir, all_paths, hist, answer,
                   fs, denied, ci, attempts, pass, exit_code>>

\* lines 74-79 without the test for an empty Path Set
CheckEmptyOmitted ==
    /\ pc = "check"
    /\ pc' = IF args.dry THEN "prompt" ELSE "create"
    /\ UNCHANGED <<args, groups, gi, ti, current_dir, all_paths, hist, answer,
                   fs, denied, ci, attempts, pass, exit_code>>

\* lines 74-79: an empty Path Set is fatal; --dry goes to the prompt
CheckEmpty ==
    /\ pc = "check"
    /\ IF all_paths = {} THEN Exit(1)
       ELSE /\ pc' = IF args.dry THEN "prompt" ELSE "create"
            /\ UNCHANGED exit_code
    /\ UNCHANGED <<args, groups, gi, ti, current_dir, all_paths, hist, answer,
                   fs, denied, ci, attempts, pass>>

\* lines 89-91 with a prefix test in place of the two comparisons
AffirmativeByPrefix(line) ==
    LET choice == to_lowercase(trim(line))
    IN  choice # <<>> /\ choice[1] = "y"

\* lines 89-91
Affirmative(line) ==
    LET choice == to_lowercase(trim(line))
    IN  choice = <<"y">> \/ choice = <<"y","e","s">>

\* lines 85-97: the line read from standard input decides
Prompt(line) ==
    /\ pc = "prompt"
    /\ answer' = <<line>>
    /\ IF Affirmative(line)
       THEN pc' = "create" /\ UNCHANGED exit_code
       ELSE Exit(0)
    /\ UNCHANGED <<args, groups, gi, ti, current_dir, all_paths, hist, fs,
                   denied, ci, attempts, pass>>

\* line 88: read_line fails (standard input is not UTF-8, or is closed with
\* an error): main returns the Err
PromptError ==
    /\ pc = "prompt"
    /\ Exit(1)
    /\ UNCHANGED <<args, groups, gi, ti, current_dir, all_paths, hist, answer,
                   fs, denied, ci, attempts, pass>>

\* lines 100-104 with the error propagated (create_path(path)?)
CreateNextFailFast ==
    /\ pc = "create"
    /\ ci <= Cardinality(all_paths)
    /\ LET path == SortedPaths(all_paths)[ci]
           r    == create_path(fs, path)
       IN  /\ fs' = r.fs
           /\ attempts' = Append(attempts, [path |-> path, ok |-> r.ok,
                                            kind |-> r.kind, pass |-> pass + 1])
           /\ IF r.ok THEN UNCHANGED <<pc, exit_code>> ELSE Exit(1)
    /\ ci' = ci + 1
    /\ UNCHANGED <<args, groups, gi, ti, current_dir, all_paths, hist,
                   answer, denied, pass>>

\* lines 100-104: create_path on the next path of the set, errors reported
CreateNext ==
    /\ pc = "create"
    /\ ci <= Cardinality(all_paths)
    /\ LET path == SortedPaths(all_paths)[ci]
           r    == create_path(fs, path)
       IN  /\ fs' = r.fs
           /\ attempts' = Append(attempts, [path |-> path, ok |-> r.ok,
                                            kind |-> r.kind, pass |-> pass + 1])
    /\ ci' = ci + 1
    /\ UNCHANGED <<pc, args, groups, gi, ti, current_dir, all_paths, hist,
                   answer, denied, pass, exit_code>>

\* lines 106-107
Finish ==
    /\ pc = "create"
    /\ ci > Cardinality(all_paths)
    /\ pass' = pass + 1
    /\ Exit(0)
    /\ UNCHANGED <<args, groups, gi, ti, current_dir, all_paths, hist, answer,
                   fs, denied, ci, attempts>>

\* A second materialization of the same Path Set (the program run again on
\* the same input): the loop of lines 100-104 starts over
Again ==
    /\ pc = "create"
    /\ ci > Cardinality(all_paths)
    /\ pass + 1 < Passes
    /\ pass' = pass + 1
    /\ ci' = 1
    /\ UNCHANGED <<pc, args, groups, gi, ti, current_dir, all_paths, hist,
                   answer, fs, denied, attempts, exit_code>>

\* Between two materializations somebody writes into one of the files
WriteData(loc) ==
    /\ pc = "create"
    /\ pass >= 1
    /\ ci = 1
    /\ loc \in fs.files \ fs.data
    /\ fs' = [fs EXCEPT !.data = @ \cup {loc}]
    /\ UNCHANGED <<pc, args, groups, gi, ti, current_dir, all_paths, hist,
                   answer, denied, ci, attempts, pass, exit_code>>

LastPass ==
    /\ pass + 1 >= Passes
    /\ Finish

(***************************************************************************)
(* Inputs                                                                  *)
(***************************************************************************)

BoundedSeqs(S, n) == UNION {[1..k -> S] : k \in 0..n}

None == <<>>
Some(x) == <<x>>

Dot == <<".">>
Out == <<"o","u","t">>

Fresh ==
    /\ groups = <<>>
    /\ gi = 1
    /\ ti = 0
    /\ current_dir = <<>>
    /\ all_paths = {}
    /\ hist = <<>>
    /\ answer = None
    /\ fs = NoFs
    /\ ci = 1
    /\ attempts = <<>>
    /\ pass = 0
    /\ exit_code = -1

\* --- main, from the command line to the exit status ---------------------

MainTokens == {ASCEND, SEP, <<"a">>}

Templates == {None, Some(TemplateGood), Some(TemplateBlank), Some(TemplateNone)}
Froms == {None, Some(FromGood), Some(FromBlank), Some(FromLocked), Some(FromNone)}
Defaults == {None, Some(<<"f","o","o">>), Some(<<"r","s">>)}

\* What the environment refuses: nothing, or one early path of every source
DeniedSets ==
    { {},
      { Append(Cwd, <<"a">>),
        Append(Cwd, <<".","g","i","t","i","g","n","o","r","e">>),
        Append(Cwd, <<"t","p">>), Append(Cwd, <<"f","r">>) } }

AnswerLines ==
    { <<>>,                                \* end of input
      <<"y","\n">>, <<"n","\n">>, <<"\n">>,
      <<" ","Y","e","S","\r","\n">>,
      <<"y","y","\n">>, <<"y"," ","e","s","\n">> }

Init ==
    /\ pc = "start"
    /\ args \in [paths : BoundedSeqs(MainTokens, MaxArgs), output : {Dot},
                 dry : BOOLEAN, from : Froms, template : Templates,
                 default : Defaults]
    /\ denied \in DeniedSets
    /\ Fresh

Next ==
    \/ CheckInput
    \/ UseTemplate
    \/ UseFrom
    \/ UseDefault
    \/ UseArgs
    \/ BeginGroup
    \/ WalkToken
    \/ EndGroup
    \/ CollectDone
    \/ CheckEmpty
    \/ \E line \in AnswerLines : Prompt(line)
    \/ PromptError
    \/ CreateNext
    \/ Finish

Spec == Init /\ [][Next]_vars

\* --- parse_groups and collect_groups on their own ------------------------

Tokens ==
    { ASCEND, SEP, <<"a">>, <<"b",".","t","x","t">>, <<".","g">>,
      <<"s","/","d","/","f",".","t">> }

Example1 ==
    << <<"s","r","c">>, <<"m","a","i","n",".","r","s">>, SEP,
       <<"R","E","A","D","M","E",".","m","d">> >>

Example2 == << <<"a">>, ASCEND, <<"b",".","t","x","t">> >>

Bases == {Dot, Out, <<"o","/","p">>, <<"/","r">>}

InitCollect ==
    /\ pc = "select"
    /\ args \in [paths : BoundedSeqs(Tokens, MaxTokens) \cup {Example1, Example2},
                 output : Bases, dry : {FALSE}, from : {None},
                 template : {None}, default : {None}]
    /\ denied = {}
    /\ Fresh

NextCollect ==
    \/ UseArgs
    \/ BeginGroup
    \/ WalkToken
    \/ EndGroup
    \/ CollectDone

SpecCollect == InitCollect /\ [][NextCollect]_vars

\* --- positional tokens, collected and then materialized twice ------------

CreateTokens ==
    { ASCEND, SEP, <<"a">>, <<"b",".","t","x","t">>, <<".","g">>, <<"n",".">>,
      <<"v","1",".","2">>, <<"v","1",".","2","/","x">>,
      <<"c",".","t","/">>, <<"a","/",".">> }

InitCreate ==
    /\ pc = "select"
    /\ args \in [paths : BoundedSeqs(CreateTokens, MaxCreateTokens),
                 output : {Dot, Out}, dry : {FALSE}, from : {None},
                 template : {None}, default : {None}]
    /\ denied = {}
    /\ Fresh

NextCreate ==
    \/ UseArgs
    \/ BeginGroup
    \/ WalkToken
    \/ EndGroup
    \/ CollectDone
    \/ CheckEmpty
    \/ CreateNext
    \/ Again
    \/ \E loc \in fs.files : WriteData(loc)
    \/ LastPass

SpecCreate == InitCreate /\ [][NextCreate]_vars

(***************************************************************************)
(* Properties                                                              *)
(***************************************************************************)

RECURSIVE Flatten(_)
Flatten(ss) == IF ss = <<>> THEN <<>> ELSE Head(ss) \o Flatten(Tail(ss))

\* The maximal runs of non-":" tokens of a token sequence, by position
RunStarts(tokens) ==
    {i \in 1..Len(tokens) : tokens[i] # SEP /\ (i = 1 \/ tokens[i - 1] = SEP)}

RunEnd(tokens, s) ==
    CHOOSE e \in s..Len(tokens) :
        /\ \A k \in s..e : tokens[k] # SEP
        /\ e = Len(tokens) \/ tokens[e + 1] = SEP

RECURSIVE RunsFrom(_, _)
RunsFrom(tokens, starts) ==
    IF starts = {} THEN <<>>
    ELSE LET s == CHOOSE x \in starts : \A y \in starts : x <= y
         IN  <<SubSeq(tokens, s, RunEnd(tokens, s))>>
                 \o RunsFrom(tokens, starts \ {s})

MaximalRuns(tokens) == RunsFrom(tokens, RunStarts(tokens))

Collected == pc \in {"collect", "check"}

\* C3: parse_groups returns exactly the maximal runs of non-":" tokens of
\* its input: no group is empty, no group holds ":", and the groups joined
\* in order are the input without its ":" tokens. (Checked on every token
\* sequence of the bound, the empty one and those with leading, trailing
\* and adjacent ":" included.)
C3_ParseGroupsMaximalRuns ==
    Collected =>
        /\ groups = MaximalRuns(args.paths)
        /\ \A g \in 1..Len(groups) :
              groups[g] # <<>> /\ \A i \in 1..Len(groups[g]) : groups[g][i] # SEP
        /\ Flatten(groups) = SelectSeq(args.paths, LAMBDA t : t # SEP)

\* C3 witness: an input with a leading ":", two adjacent ":" and a trailing
\* ":" has been parsed into its one group
C3_Witness ==
    /\ Collected
    /\ Len(args.paths) = 4
    /\ args.paths[1] = SEP
    /\ args.paths[2] = <<"a">>
    /\ args.paths[3] = SEP
    /\ args.paths[4] = SEP
    /\ groups = << <<args.paths[2]>> >>

\* The place a path names, "." and ".." resolved by name
RECURSIVE PlaceFrom(_, _, _)
PlaceFrom(p, i, loc) ==
    IF i > Len(p) THEN loc
    ELSE IF p[i] = RootDir THEN PlaceFrom(p, i + 1, <<>>)
    ELSE IF p[i] = CurDir THEN PlaceFrom(p, i + 1, loc)
    ELSE IF p[i] = ParentDir THEN PlaceFrom(p, i + 1, Up(loc))
    ELSE PlaceFrom(p, i + 1, Append(loc, p[i]))

Place(p) == PlaceFrom(Components(p), 1, Cwd)

\* p is the directory b or lies below it
Within(b, p) ==
    /\ Len(Place(p)) >= Len(Place(b))
    /\ SubSeq(Place(p), 1, Len(Place(b))) = Place(b)

\* C1: after collect_groups every path of the Path Set other than the base
\* has its immediate parent in the Path Set. (Read in the claim's favour:
\* the base counts as present, and a path that has no parent is exempt.)
C1_AncestorClosure ==
    pc = "check" =>
        \A p \in all_paths :
            (~SamePath(p, Base) /\ HasParent(p))
                => \E q \in all_paths \cup {Base} : SamePath(q, Parent(p))

\* C2: ascent is clamped at the base: the cursor is always the base or below
\* it, a ".." met at the base leaves the cursor at the base, and no resolved
\* path lies outside the base. (Read in the claim's favour: paths that name
\* the same place, such as "" and ".", count as equal.)
C2_AscentClamped ==
    /\ (pc = "collect" /\ ti >= 1) => Within(Base, current_dir)
    /\ \A i \in 1..Len(hist) :
          /\ (hist[i].token = ASCEND /\ Place(hist[i].before) = Place(Base))
                => Place(hist[i].after) = Place(Base)
          /\ hist[i].token # ASCEND => Within(Base, hist[i].path)

\* The paths the spec's two examples list, under the base "."
Example1Paths ==
    { <<".","/","s","r","c">>,
      <<".","/","s","r","c","/","m","a","i","n",".","r","s">>,
      <<".","/","R","E","A","D","M","E",".","m","d">> }

Example2Paths == { <<".","/","a">>, <<".","/","b",".","t","x","t">> }

\* C9: the cursor rule of collect_groups. Every group starts with the cursor
\* at the base; within a group the cursor a token sees is the one the token
\* before it left; a token other than ".." whose resolved path is file-like
\* (has an extension, or a final segment starting with ".") leaves the
\* cursor alone, and one whose resolved path is directory-like makes that
\* path the cursor. So Example 1 yields ./src, ./src/main.rs and ./README.md
\* and Example 2 yields ./a and ./b.txt (next to the base "." itself).
C9_CursorRule ==
    /\ \A i \in 1..Len(hist) :
          /\ (i = 1 \/ hist[i - 1].group # hist[i].group)
                => hist[i].before = Base
          /\ (i > 1 /\ hist[i - 1].group = hist[i].group)
                => hist[i].before = hist[i - 1].after
          /\ hist[i].token # ASCEND =>
                hist[i].after =
                    IF HasExtension(hist[i].path)
                          \/ StartsWithDot(FileName(hist[i].path))
                    THEN hist[i].before ELSE hist[i].path
    /\ (pc = "check" /\ args.output = Dot /\ args.paths = Example1)
          => all_paths \ {Base} = Example1Paths
    /\ (pc = "check" /\ args.output = Dot /\ args.paths = Example2)
          => all_paths \ {Base} = Example2Paths

\* C9 witness: Example 1 has been collected; its second group started at
\* the base although the first group had moved the cursor into ./src
C9_Witness ==
    /\ pc = "check"
    /\ args.output = Dot
    /\ args.paths = Example1
    /\ Len(hist) = 3
    /\ hist[2].before = <<".","/","s","r","c">>
    /\ hist[2].after = hist[2].before
    /\ hist[3].before = Base

\* --- the run as a whole ---------------------------------------------------

\* A file of the given path is there and none of its lines has a non-blank
\* character / no file of that path is there
BlankFile(path) ==
    LET r  == ReadToString(path)
        ls == lines(r.content)
    IN  r.found /\ \A i \in 1..Len(ls) : trim(ls[i]) = <<>>

MissingFile(path) == ~Exists(path)

KnownDefaults ==
    { <<"p","y">>, <<"p","y","t","h","o","n">>, <<"r","s">>, <<"r","u","s","t">>,
      <<"w","e","b">>, <<"j","s">>, <<"t","s">> }

\* The groups of the highest-priority source that was supplied, in the order
\* template > structure file > default > positional tokens; usable is FALSE
\* when that source fails
Chosen ==
    IF args.template # None
    THEN LET r == parse_structure_file(get_template_path(args.template[1]))
         IN  [usable |-> Exists(get_template_path(args.template[1]))
                            /\ r.result = "ok",
              groups |-> <<r.lines>>]
    ELSE IF args.from # None
    THEN LET r == parse_structure_file(args.from[1])
         IN  [usable |-> r.result = "ok", groups |-> <<r.lines>>]
    ELSE IF args.default # None
    THEN [usable |-> args.default[1] \in KnownDefaults,
          groups |-> <<get_default(args.default[1])>>]
    ELSE [usable |-> TRUE, groups |-> parse_groups(args.paths)]

\* C4: the Path Set is built from exactly one source, the highest-priority
\* one supplied (template > structure file > default > positional tokens):
\* once collection is over it is the Path Set of that source alone, during
\* collection it holds no other path, and when that source fails the run
\* ends with status 1 and an empty Path Set, no lower-priority source used.
C4_SourcePriority ==
    LET chosen == Chosen
    IN  IF chosen.usable
        THEN LET want == CollectAll(Base, chosen.groups, 1, {})
             IN  IF pc \in {"start", "select", "collect"}
                 THEN all_paths \subseteq want
                 ELSE all_paths = want
        ELSE /\ all_paths = {}
             /\ attempts = <<>>
             /\ pc \in {"start", "select", "exit"}
             /\ pc = "exit" => exit_code = 1

\* C4 witness: all four inputs were supplied and the Path Set is the
\* template's: ".", "./tp" and "./tp/x.t"
C4_Witness ==
    /\ pc = "check"
    /\ args.template = Some(TemplateGood)
    /\ args.from = Some(FromGood)
    /\ args.default = Some(<<"r","s">>)
    /\ args.paths = << <<"a">> >>
    /\ all_paths = { <<".">>, <<".","/","t","p">>,
                     <<".","/","t","p","/","x",".","t">> }

\* C5: with --dry, a line that is not "y" or "yes" after trimming and
\* lower-casing (end of input included) ends the run with status 0 and
\* without a create_path call, the filesystem as it was; and no create_path
\* call is made before the line has been read.
C5_DeclinedCreatesNothing ==
    /\ (args.dry /\ answer = None) => (attempts = <<>> /\ fs = NoFs)
    /\ (args.dry /\ answer # None
          /\ to_lowercase(trim(answer[1])) \notin {<<"y">>, <<"y","e","s">>})
          => /\ pc = "exit"
             /\ exit_code = 0
             /\ attempts = <<>>
             /\ fs = NoFs

\* C5 witness: the prompt met the end of input and the run ended with 0
C5_Witness ==
    /\ args.dry
    /\ answer = Some(<<>>)
    /\ pc = "exit"
    /\ exit_code = 0
    /\ all_paths # {}

AttemptedPaths == {attempts[i].path : i \in 1..Len(attempts)}

\* C6: materialization is best effort: create_path is attempted once for
\* every path of the Path Set, in the set's order, whatever the earlier
\* attempts returned, and the run then ends with status 0.
C6_BestEffort ==
    /\ \A i, j \in 1..Len(attempts) :
          i < j => PathLess(attempts[i].path, attempts[j].path)
    /\ AttemptedPaths \subseteq all_paths
    /\ \A p \in all_paths \ AttemptedPaths :
          \A q \in AttemptedPaths : PathLess(q, p)
    /\ (pc = "create" /\ \E i \in 1..Len(attempts) : ~attempts[i].ok)
          => exit_code = -1
    /\ (pc = "exit" /\ attempts # <<>>)
          => (exit_code = 0 /\ AttemptedPaths = all_paths)

\* C6 witness: the run has ended with status 0 after a create_path that
\* failed and a later one that succeeded
C6_Witness ==
    /\ pc = "exit"
    /\ exit_code = 0
    /\ \E i, j \in 1..Len(attempts) :
          i < j /\ ~attempts[i].ok /\ attempts[j].ok

\* The fatal inputs the claim lists, each for the source the run selects
FatalInput ==
    \/ args.paths = <<>> /\ args.from = None /\ args.template = None
          /\ args.default = None
    \/ /\ args.template # None
       /\ \/ MissingFile(get_template_path(args.template[1]))
          \/ BlankFile(get_template_path(args.template[1]))
    \/ /\ args.template = None
       /\ args.from # None
       /\ \/ MissingFile(args.from[1])
          \/ BlankFile(args.from[1])
    \/ /\ args.template = None
       /\ args.from = None
       /\ args.default # None
       /\ args.default[1] \notin KnownDefaults

\* C7: a fatal input error creates nothing: with no input source, a missing
\* template, a missing or blank template or structure file, an unknown
\* --default identifier (each for the source the run selects), or an empty
\* collected Path Set, the run ends with status 1, no create_path call is
\* made and the filesystem stays as it was.
C7_FatalCreatesNothing ==
    /\ FatalInput =>
          /\ pc \in {"start", "select", "exit"}
          /\ pc = "exit" => exit_code = 1
          /\ attempts = <<>>
          /\ fs = NoFs
    /\ (pc \notin {"start", "select", "collect"} /\ all_paths = {}) =>
          /\ pc \in {"check", "exit"}
          /\ pc = "exit" => exit_code = 1
          /\ attempts = <<>>
          /\ fs = NoFs

\* C7 witness: positional tokens "..", ":" alone gave an empty Path Set and
\* the run ended with status 1
C7_Witness ==
    /\ pc = "exit"
    /\ exit_code = 1
    /\ args.paths = <<ASCEND, SEP>>
    /\ args.template = None /\ args.from = None /\ args.default = None
    /\ groups = <<<<ASCEND>>>>
    /\ gi = 2
    /\ all_paths = {}

\* --- materialization --------------------------------------------------------

\* C8: materializing a Path Set on an empty filesystem and then once more
\* reports no error for a directory-like path in either pass, the second
\* pass leaves the set of existing paths as it was, and a file-like path
\* that is created again is left empty.
C8_Idempotent ==
    [][CreateNext =>
          LET a == attempts'[Len(attempts')]
          IN  /\ a.kind = "dir" => a.ok
              /\ pass >= 1 => (fs'.dirs = fs.dirs /\ fs'.files = fs.files)
              /\ (a.kind = "file" /\ a.ok)
                    => Resolve(fs', a.path).loc \in fs'.files \ fs'.data
      ]_vars

\* The resolved paths that did / did not become the cursor
Advanced == {hist[i].path : i \in {k \in 1..Len(hist) :
                hist[k].token # ASCEND /\ hist[k].after = hist[k].path}}

Stayed == {hist[i].path : i \in {k \in 1..Len(hist) :
                hist[k].token # ASCEND /\ hist[k].after # hist[k].path}}

\* C10: the two classifications agree: on every resolved path the
\* directory-like test of collect_groups is the negation of the
\* file-or-directory test of create_path, so a path that advanced the
\* cursor is created as a directory and one that did not as a file.
C10_ClassificationAgrees ==
    /\ \A p \in Advanced \cup Stayed : is_dir_like(p) = ~creates_file(p)
    /\ \A i \in 1..Len(attempts) :
          /\ attempts[i].path \in Advanced => attempts[i].kind = "dir"
          /\ attempts[i].path \in Stayed => attempts[i].kind = "file"

\* C10 witness: the dotfile ".g" and the plain name "a" were both resolved
\* and created: the first as a file, without advancing the cursor, the
\* second as a directory, having advanced it
C10_Witness ==
    /\ \E i \in 1..Len(attempts) :
          /\ FileName(attempts[i].path) = <<".","g">>
          /\ attempts[i].kind = "file"
          /\ attempts[i].path \in Stayed
    /\ \E i \in 1..Len(attempts) :
          /\ FileName(attempts[i].path) = <<"a">>
          /\ attempts[i].kind = "dir"
          /\ attempts[i].path \in Advanced

====
